---- MODULE Spec2Model ----
(***************************************************************************)
(* bookIT: the booking scheduler (app/services/booking_crud.py behind      *)
(* app/routes/booking_route.py) and the session engine (app/security/      *)
(* auth.py, app/utils/user_app_service.py, app/utils/token_blacklist.py).  *)
(* Time is a discrete clock; one unit is the resolution of every datetime  *)
(* the handlers compare.                                                   *)
(***************************************************************************)
EXTENDS Integers, FiniteSets, Sequences, TLC

VARIABLES
    now,             \* datetime.now(timezone.utc)
    bookings,        \* rows of table "bookings"
    service_active,  \* Service.is_active per row of table "services"
    next_id,         \* number of booking ids handed out so far (uuid4 is fresh)
    resp,            \* the request last handled by a booking handler and its answer
    user_active,     \* User.is_active per row of table "users"
    user_status,     \* User.status per row of table "users"
    issued,          \* the tokens signed so far (clients hold them)
    ledger,          \* rows of table "token_blacklist"
    next_jti,        \* number of jti handed out so far (uuid4 is fresh)
    sresp,           \* the request last handled by a session handler and its answer
    logged_out,      \* history: jti of the access tokens a successful logout was made with
    rotated,         \* history: jti of the refresh tokens a successful rotation was made with
    from_login,      \* history: the access tokens login returned, and to whom
    orphaned,        \* history: jti of the tokens a user held when that user was deleted
    pc,              \* where each concurrent handler stands
    local,           \* the request and the local variables of each concurrent handler
    verbose,         \* whether resp keeps the times of the request, or only that they were given
    stamped,         \* whether a booking keeps the time of its creation, or 0 for it
    reviews,         \* rows of table "reviews"
    listing          \* the list request last handled and the bookings it returned

bvars == <<bookings, service_active, next_id, resp>>
svars == <<user_active, user_status, issued, ledger, next_jti, sresp,
           logged_out, rotated, from_login, orphaned>>
rvars == <<pc, local, verbose, stamped, reviews, listing>>
vars == <<now, bvars, svars, rvars>>

----------------------------------------------------------------------------
(* Bounds of the model *)

MaxTime == 3
MaxBookings == 2
MaxPairs == 2
\* the lifetimes of user_app_service.py (30 minutes, 7 days) in clock units
AccessTTL == 1
RefreshTTL == 2

Times == 0..MaxTime
UserIds == {"u1", "adm"}
ServiceIds == {"s1", "s2"}
Procs == {"p1", "p2"}

\* a field the request leaves out (model_dump(exclude_unset=True))
Unset == -1
UnsetStatus == "unset"
NoId == 0

----------------------------------------------------------------------------
(* Users as the booking routes see them: current_user.role *)

role(u) == IF u = "adm" THEN "admin" ELSE "user"

----------------------------------------------------------------------------
(* Bookings *)

BookingStatus == {"pending", "confirmed", "cancelled", "completed"}

Booking(id, user_id, service_id, start_time, end_time, status) ==
    [id |-> id, user_id |-> user_id, service_id |-> service_id,
     start_time |-> start_time, end_time |-> end_time, status |-> status,
     created_at |-> IF stamped THEN now ELSE 0]

get_booking_by_id(db, booking_id) == {b \in db : b.id = booking_id}

\* a variant of _has_time_conflict whose first case is closed at the end of
\* the existing booking: it takes back-to-back windows for a conflict
has_time_conflict_closed(db, service_id, start_time, end_time, exclude_booking_id) ==
    \E b \in db :
        /\ b.service_id = service_id
        /\ b.status \in {"pending", "confirmed"}
        /\ \/ (b.start_time <= start_time /\ start_time <= b.end_time)
           \/ (b.start_time < end_time /\ end_time <= b.end_time)
           \/ (start_time <= b.start_time /\ b.end_time <= end_time)
        /\ (exclude_booking_id # NoId => b.id # exclude_booking_id)

\* BookingCRUD._has_time_conflict: the three cases of the query's or_(),
\* then the optional exclusion of the booking being updated
has_time_conflict(db, service_id, start_time, end_time, exclude_booking_id) ==
    \E b \in db :
        /\ b.service_id = service_id
        /\ b.status \in {"pending", "confirmed"}
        /\ \/ (b.start_time <= start_time /\ start_time < b.end_time)
           \/ (b.start_time < end_time /\ end_time <= b.end_time)
           \/ (start_time <= b.start_time /\ b.end_time <= end_time)
        /\ (exclude_booking_id # NoId => b.id # exclude_booking_id)

\* a variant of the BookingBase validators without start_time_must_be_in_future
BookingCreateValid_anytime(start_time, end_time) ==
    ~(end_time <= start_time)

\* BookingBase validators: start_time_must_be_in_future, then
\* end_time_must_be_after_start_time
BookingCreateValid(start_time, end_time) ==
    /\ ~(start_time <= now)
    /\ ~(end_time <= start_time)

\* BookingUpdate.end_time_must_be_after_start_time
BookingUpdateValid(patch) ==
    ~(patch.end_time # Unset /\ patch.start_time # Unset
        /\ patch.end_time <= patch.start_time)

\* a time of a request, kept only as given (0) or left out
Given(time) == IF time = Unset THEN Unset ELSE 0

\* what resp keeps of a request and its answer: all of it, or all but the
\* values of the times it gave
Response(op, actor, id, service_id, start_time, end_time, status, kind) ==
    [op |-> op, actor |-> actor, id |-> id, service_id |-> service_id,
     start_time |-> IF verbose THEN start_time ELSE Given(start_time),
     end_time |-> IF verbose THEN end_time ELSE Given(end_time),
     status |-> status, kind |-> kind]

Idle ==
    [op |-> "none", actor |-> "u1", id |-> NoId, service_id |-> "s1",
     start_time |-> Unset, end_time |-> Unset, status |-> UnsetStatus,
     kind |-> "none"]

\* a variant of create_booking whose service query leaves is_active out
create_booking_kind_any(db, active, service_id, start_time, end_time, commit_ok) ==
    IF service_id \notin ServiceIds THEN "NotFound"
    ELSE IF has_time_conflict(db, service_id, start_time, end_time, NoId)
         THEN "Conflict"
    ELSE IF ~commit_ok THEN "Unavailable"
    ELSE "ok"

\* outcome of BookingCRUD.create_booking for a request that passed the
\* schema; commit_ok is whether db.commit() of the insert goes through
create_booking_kind(db, active, service_id, start_time, end_time, commit_ok) ==
    IF ~(service_id \in ServiceIds /\ active[service_id]) THEN "NotFound"
    ELSE IF has_time_conflict(db, service_id, start_time, end_time, NoId)
         THEN "Conflict"
    ELSE IF ~commit_ok THEN "Unavailable"
    ELSE "ok"

\* POST /bookings
create_booking(actor, service_id, start_time, end_time, commit_ok) ==
    LET kind == IF ~BookingCreateValid(start_time, end_time)
                THEN "InvalidInterval"
                ELSE create_booking_kind(bookings, service_active, service_id,
                                         start_time, end_time, commit_ok)
    IN  /\ resp = Idle
        /\ next_id < MaxBookings
        /\ IF kind = "ok"
           THEN /\ bookings' = bookings \cup
                       {Booking(next_id + 1, actor, service_id,
                                start_time, end_time, "pending")}
                /\ next_id' = next_id + 1
                /\ resp' = Response("create", actor, next_id + 1, service_id,
                                    start_time, end_time, "pending", kind)
           ELSE /\ UNCHANGED <<bookings, next_id>>
                /\ resp' = Response("create", actor, NoId, service_id,
                                    start_time, end_time, UnsetStatus, kind)
        /\ UNCHANGED <<now, service_active>>

\* a variant of the checks of update_booking that lets a non-admin
\* reschedule a booking of any status
update_booking_kind_lax(db, b, patch, user_id, is_admin, commit_ok) ==
    LET reschedule == patch.start_time # Unset \/ patch.end_time # Unset
        new_start == IF patch.start_time # Unset THEN patch.start_time
                     ELSE b.start_time
        new_end == IF patch.end_time # Unset THEN patch.end_time
                   ELSE b.end_time
    IN  IF ~is_admin /\ b.user_id # user_id THEN "Forbidden"
        ELSE IF patch.status = "cancelled" /\ ~is_admin
                /\ b.status \notin {"pending", "confirmed"}
             THEN "InvalidTransition"
        ELSE IF reschedule
                /\ has_time_conflict(db, b.service_id, new_start, new_end, b.id)
             THEN "Conflict"
        ELSE IF ~commit_ok THEN "Unavailable"
        ELSE "ok"

\* the checks of BookingCRUD.update_booking, in the order of the code
update_booking_kind(db, b, patch, user_id, is_admin, commit_ok) ==
    LET reschedule == patch.start_time # Unset \/ patch.end_time # Unset
        new_start == IF patch.start_time # Unset THEN patch.start_time
                     ELSE b.start_time
        new_end == IF patch.end_time # Unset THEN patch.end_time
                   ELSE b.end_time
    IN  IF ~is_admin /\ b.user_id # user_id THEN "Forbidden"
        ELSE IF reschedule /\ ~is_admin
                /\ b.status \notin {"pending", "confirmed"}
             THEN "InvalidTransition"
        ELSE IF patch.status = "cancelled" /\ ~is_admin
                /\ b.status \notin {"pending", "confirmed"}
             THEN "InvalidTransition"
        ELSE IF reschedule
                /\ has_time_conflict(db, b.service_id, new_start, new_end, b.id)
             THEN "Conflict"
        ELSE IF ~commit_ok THEN "Unavailable"
        ELSE "ok"

\* a variant of the setattr loop that also renews created_at
apply_update_restamped(b, patch) ==
    [b EXCEPT
        !.start_time = IF patch.start_time # Unset THEN patch.start_time ELSE @,
        !.end_time = IF patch.end_time # Unset THEN patch.end_time ELSE @,
        !.status = IF patch.status # UnsetStatus THEN patch.status ELSE @,
        !.created_at = now]

\* the setattr loop of BookingCRUD.update_booking
apply_update(b, patch) ==
    [b EXCEPT
        !.start_time = IF patch.start_time # Unset THEN patch.start_time ELSE @,
        !.end_time = IF patch.end_time # Unset THEN patch.end_time ELSE @,
        !.status = IF patch.status # UnsetStatus THEN patch.status ELSE @]

Patch(start_time, end_time, status) ==
    [start_time |-> start_time, end_time |-> end_time, status |-> status]

\* BookingCRUD.update_booking
update_booking_crud(op, actor, booking_id, patch, user_id, is_admin, commit_ok) ==
    LET found == get_booking_by_id(bookings, booking_id)
    IN  IF found = {}
        THEN /\ resp' = Response(op, actor, booking_id, "s1", patch.start_time,
                                 patch.end_time, patch.status, "NotFound")
             /\ UNCHANGED bookings
        ELSE LET b == CHOOSE x \in found : TRUE
                 kind == update_booking_kind(bookings, b, patch, user_id,
                                             is_admin, commit_ok)
             IN  /\ resp' = Response(op, actor, booking_id, b.service_id,
                                     patch.start_time, patch.end_time,
                                     patch.status, kind)
                 /\ bookings' = IF kind = "ok"
                                THEN (bookings \ {b}) \cup {apply_update(b, patch)}
                                ELSE bookings

\* PATCH /bookings/{booking_id}
update_booking(actor, booking_id, patch, commit_ok) ==
    /\ resp = Idle
    /\ IF ~BookingUpdateValid(patch)
       THEN /\ resp' = Response("update", actor, booking_id, "s1",
                                patch.start_time, patch.end_time, patch.status,
                                "InvalidInterval")
            /\ UNCHANGED bookings
       ELSE update_booking_crud("update", actor, booking_id, patch, actor,
                                role(actor) = "admin", commit_ok)
    /\ UNCHANGED <<now, service_active, next_id>>

\* PATCH /admin/bookings/{booking_id}/status
update_booking_status(actor, booking_id, status, commit_ok) ==
    /\ resp = Idle
    /\ IF role(actor) # "admin"
       THEN /\ resp' = Response("update_status", actor, booking_id, "s1",
                                Unset, Unset, status, "Forbidden")
            /\ UNCHANGED bookings
       ELSE update_booking_crud("update_status", actor, booking_id,
                                Patch(Unset, Unset, status), actor, TRUE,
                                commit_ok)
    /\ UNCHANGED <<now, service_active, next_id>>

\* a variant of delete_booking that lets the owner delete a booking that
\* starts at the clock
delete_booking_kind_started(b, user_id, is_admin, commit_ok) ==
    IF ~is_admin /\ b.user_id # user_id THEN "Forbidden"
    ELSE IF ~is_admin /\ b.start_time < now THEN "TooLate"
    ELSE IF ~commit_ok THEN "Unavailable"
    ELSE "ok"

\* a variant of delete_booking without the check of the owner
delete_booking_kind_open(b, user_id, is_admin, commit_ok) ==
    IF ~is_admin /\ b.start_time <= now THEN "TooLate"
    ELSE IF ~commit_ok THEN "Unavailable"
    ELSE "ok"

\* outcome of BookingCRUD.delete_booking
delete_booking_kind(b, user_id, is_admin, commit_ok) ==
    IF ~is_admin /\ b.user_id # user_id THEN "Forbidden"
    ELSE IF ~is_admin /\ b.start_time <= now THEN "TooLate"
    ELSE IF ~commit_ok THEN "Unavailable"
    ELSE "ok"

\* DELETE /bookings/{booking_id}
delete_booking(actor, booking_id, commit_ok) ==
    LET found == get_booking_by_id(bookings, booking_id)
    IN  /\ resp = Idle
        /\ IF found = {}
           THEN /\ resp' = Response("delete", actor, booking_id, "s1", Unset,
                                    Unset, UnsetStatus, "NotFound")
                /\ UNCHANGED bookings
           ELSE LET b == CHOOSE x \in found : TRUE
                    kind == delete_booking_kind(b, actor,
                                                role(actor) = "admin", commit_ok)
                IN  /\ resp' = Response("delete", actor, booking_id,
                                        b.service_id, Unset, Unset,
                                        UnsetStatus, kind)
                    /\ bookings' = IF kind = "ok" THEN bookings \ {b}
                                   ELSE bookings
        /\ UNCHANGED <<now, service_active, next_id>>

\* the answer of the request last handled goes back to the client
Deliver ==
    /\ resp # Idle
    /\ resp' = Idle
    /\ UNCHANGED <<now, bookings, service_active, next_id>>

\* the clock moves on between two requests
Tick ==
    /\ resp = Idle
    /\ now < MaxTime
    /\ now' = now + 1
    /\ UNCHANGED <<bookings, service_active, next_id, resp>>

----------------------------------------------------------------------------
(* Sessions *)

NoJti == 0
NoUser == "none"

\* the claims of a signed token: sub, jti, exp, type
Token(jti, sub, exp, type) ==
    [jti |-> jti, sub |-> sub, exp |-> exp, type |-> type]

\* a variant of create_access_token that signs the type of a refresh token
create_access_token_mistyped(sub, jti) ==
    Token(jti, sub, now + AccessTTL, "refresh")

create_access_token(sub, jti) == Token(jti, sub, now + AccessTTL, "access")

create_refresh_token(sub, jti) == Token(jti, sub, now + RefreshTTL, "refresh")

\* jwt.decode of python-jose on a token this server signed: the signature
\* holds, and the token is rejected as expired once exp < now
jwt_decode(t) == IF t.exp < now THEN "Invalid" ELSE "ok"

\* TokenBlacklistService.is_token_blacklisted
is_token_blacklisted(db, jti) ==
    \E row \in db : row.jti = jti /\ row.expires_at > now

\* a variant of blacklist_token that also inserts a row for the token signed
\* just before this one (the access token of a refresh token's pair)
blacklist_token_pair(db, token, expires_at, insert_ok) ==
    IF token.jti = NoJti THEN db
    ELSE IF \E row \in db : row.jti = token.jti THEN db
    ELSE IF insert_ok
         THEN db \cup {[jti |-> token.jti, expires_at |-> expires_at],
                       [jti |-> token.jti - 1, expires_at |-> expires_at]}
    ELSE db

\* a variant of blacklist_token that does not query for an existing row
blacklist_token_again(db, token, expires_at, insert_ok) ==
    IF token.jti = NoJti THEN db
    ELSE IF insert_ok
         THEN db \cup {[jti |-> token.jti, expires_at |-> expires_at]}
    ELSE db

\* TokenBlacklistService.blacklist_token: the ledger it leaves; insert_ok is
\* whether the insert and its commit go through (a failure is logged and
\* swallowed)
blacklist_token(db, token, expires_at, insert_ok) ==
    IF token.jti = NoJti THEN db
    ELSE IF \E row \in db : row.jti = token.jti THEN db
    ELSE IF insert_ok
         THEN db \cup {[jti |-> token.jti, expires_at |-> expires_at]}
    ELSE db

\* TokenBlacklistService.blacklist_token: the line it writes to the log
blacklist_token_log(db, token, insert_ok) ==
    IF token.jti = NoJti THEN "warning: without jti"
    ELSE IF \E row \in db : row.jti = token.jti THEN "info: already blacklisted"
    ELSE IF insert_ok THEN "info: blacklisted"
    ELSE "error"

\* a variant of cleanup_expired_tokens that also deletes the rows about to
\* expire
cleanup_expired_tokens_early(db) == {row \in db : ~(row.expires_at <= now + 1)}

\* TokenBlacklistService.cleanup_expired_tokens: the rows it leaves
cleanup_expired_tokens(db) == {row \in db : ~(row.expires_at <= now)}

\* a variant of verify_refresh_token that does not look at the type
verify_refresh_token_untyped(t, db, active) ==
    IF jwt_decode(t) # "ok" THEN "Invalid"
    ELSE IF t.sub = NoUser \/ t.jti = NoJti THEN "Invalid"
    ELSE IF is_token_blacklisted(db, t.jti) THEN "Revoked"
    ELSE IF ~active[t.sub] THEN "Invalid"
    ELSE "ok"

\* security.auth.verify_refresh_token: "ok" and the user, or the error
verify_refresh_token(t, db, active) ==
    IF jwt_decode(t) # "ok" THEN "Invalid"
    ELSE IF t.sub = NoUser \/ t.jti = NoJti \/ t.type # "refresh" THEN "Invalid"
    ELSE IF is_token_blacklisted(db, t.jti) THEN "Revoked"
    ELSE IF ~active[t.sub] THEN "Invalid"
    ELSE "ok"

\* security.auth.get_current_user: "ok" and the user, or the error
get_current_user(t, db, active) ==
    IF jwt_decode(t) # "ok" THEN "Invalid"
    ELSE IF t.sub = NoUser \/ t.jti = NoJti \/ t.type # "access" THEN "Invalid"
    ELSE IF is_token_blacklisted(db, t.jti) THEN "Revoked"
    ELSE IF ~active[t.sub] THEN "Invalid"
    ELSE "ok"

SessionResponse(op, jti, kind, user, access, refresh) ==
    [op |-> op, jti |-> jti, kind |-> kind, user |-> user,
     access |-> access, refresh |-> refresh]

SessionIdle == SessionResponse("none", NoJti, "none", NoUser, NoJti, NoJti)

\* the pair login_user and refresh_access_token sign for a user
NewPair(sub) ==
    {create_access_token(sub, next_jti + 1),
     create_refresh_token(sub, next_jti + 2)}

HasRoom == next_jti + 2 <= 2 * MaxPairs

\* POST /auth/login: authenticate_user, then UserService.login_user
login_user(u, password_ok, commit_ok) ==
    LET kind == IF ~(user_active[u] /\ password_ok) THEN "Invalid"
                ELSE IF user_status[u] # "active" /\ ~commit_ok
                     THEN "Unavailable"
                ELSE "ok"
    IN  /\ sresp = SessionIdle
        /\ kind = "ok" => HasRoom
        /\ IF kind = "ok"
           THEN /\ user_status' = [user_status EXCEPT ![u] = "active"]
                /\ issued' = issued \cup NewPair(u)
                /\ next_jti' = next_jti + 2
                /\ from_login' = from_login \cup {[jti |-> next_jti + 1, user |-> u]}
                /\ sresp' = SessionResponse("login", NoJti, kind, u,
                                            next_jti + 1, next_jti + 2)
           ELSE /\ UNCHANGED <<user_status, issued, next_jti, from_login>>
                /\ sresp' = SessionResponse("login", NoJti, kind, u,
                                            NoJti, NoJti)
        /\ UNCHANGED <<now, user_active, ledger, logged_out, rotated, orphaned>>

\* POST /auth/logout: get_current_user on the bearer token, then
\* UserService.logout_user with the refresh token of the request body
logout_user(t, r, commit_ok, insert_ok1, insert_ok2) ==
    LET auth == get_current_user(t, ledger, user_active)
        kind == IF auth # "ok" THEN auth
                ELSE IF ~commit_ok THEN "Unavailable"
                ELSE "ok"
        ledger1 == blacklist_token(ledger, t, t.exp, insert_ok1)
        ledger2 == blacklist_token(ledger1, r, r.exp, insert_ok2)
    IN  /\ sresp = SessionIdle
        /\ sresp' = SessionResponse("logout", t.jti, kind,
                                    IF auth = "ok" THEN t.sub ELSE NoUser,
                                    NoJti, r.jti)
        /\ IF kind = "ok"
           THEN /\ user_status' = [user_status EXCEPT ![t.sub] = "inactive"]
                /\ ledger' = ledger2
                /\ logged_out' = logged_out \cup {t.jti}
           ELSE UNCHANGED <<user_status, ledger, logged_out>>
        /\ UNCHANGED <<now, user_active, issued, next_jti, rotated, from_login, orphaned>>

\* POST /auth/refresh: UserService.refresh_access_token
refresh_access_token(r, insert_ok) ==
    LET auth == verify_refresh_token(r, ledger, user_active)
        kind == IF auth # "ok" THEN auth
                ELSE IF ~user_active[r.sub] THEN "Forbidden"
                ELSE "ok"
    IN  /\ sresp = SessionIdle
        /\ kind = "ok" => HasRoom
        /\ IF kind = "ok"
           THEN /\ ledger' = blacklist_token(ledger, r, r.exp, insert_ok)
                /\ issued' = issued \cup NewPair(r.sub)
                /\ next_jti' = next_jti + 2
                /\ rotated' = rotated \cup {r.jti}
                /\ sresp' = SessionResponse("refresh", r.jti, kind, r.sub,
                                            next_jti + 1, next_jti + 2)
           ELSE /\ UNCHANGED <<ledger, issued, next_jti, rotated>>
                /\ sresp' = SessionResponse("refresh", r.jti, kind, NoUser,
                                            NoJti, NoJti)
        /\ UNCHANGED <<now, user_active, user_status, logged_out, from_login, orphaned>>

\* a request behind Depends(get_current_user): the user it runs as
authenticate(t) ==
    LET kind == get_current_user(t, ledger, user_active)
    IN  /\ sresp = SessionIdle
        /\ sresp' = SessionResponse("verify", t.jti, kind,
                                    IF kind = "ok" THEN t.sub ELSE NoUser,
                                    NoJti, NoJti)
        /\ UNCHANGED <<now, user_active, user_status, issued, ledger,
                       next_jti, logged_out, rotated, from_login, orphaned>>

\* a request behind Depends(get_current_active_user): get_current_user,
\* then the check of the user's status
authenticate_active(t) ==
    LET auth == get_current_user(t, ledger, user_active)
        kind == IF auth # "ok" THEN auth
                ELSE IF user_status[t.sub] # "active" THEN "Forbidden"
                ELSE "ok"
    IN  /\ sresp = SessionIdle
        /\ sresp' = SessionResponse("verify_active", t.jti, kind,
                                    IF kind = "ok" THEN t.sub ELSE NoUser,
                                    NoJti, NoJti)
        /\ UNCHANGED <<now, user_active, user_status, issued, ledger,
                       next_jti, logged_out, rotated, from_login, orphaned>>

\* TokenBlacklistService.cleanup_expired_tokens, whenever it is run
purge_expired(commit_ok) ==
    /\ sresp = SessionIdle
    /\ ledger' = IF commit_ok THEN cleanup_expired_tokens(ledger) ELSE ledger
    /\ sresp' = SessionResponse("purge", NoJti,
                                IF commit_ok THEN "ok" ELSE "Unavailable",
                                NoUser, NoJti, NoJti)
    /\ UNCHANGED <<now, user_active, user_status, issued, next_jti,
                   logged_out, rotated, from_login, orphaned>>

\* DELETE /users/{user_id}: UserCRUD.delete_user
delete_user(u) ==
    /\ sresp = SessionIdle
    /\ user_active[u]
    /\ user_active' = [user_active EXCEPT ![u] = FALSE]
    /\ orphaned' = orphaned \cup {t.jti : t \in {x \in issued : x.sub = u}}
    /\ UNCHANGED <<now, user_status, issued, ledger, next_jti, sresp,
                   logged_out, rotated, from_login>>

\* POST /auth/register with the email of user u: UserCRUD.create_user finds
\* the row of that email and, when it is inactive, reactivates it
create_user(u, commit_ok) ==
    /\ sresp = SessionIdle
    /\ IF user_active[u]
       THEN /\ sresp' = SessionResponse("register", NoJti, "Exists", u,
                                        NoJti, NoJti)
            /\ UNCHANGED <<user_active, user_status>>
       ELSE IF ~commit_ok
       THEN /\ sresp' = SessionResponse("register", NoJti, "Unavailable", u,
                                        NoJti, NoJti)
            /\ UNCHANGED <<user_active, user_status>>
       ELSE /\ sresp' = SessionResponse("register", NoJti, "ok", u,
                                        NoJti, NoJti)
            /\ user_active' = [user_active EXCEPT ![u] = TRUE]
            /\ user_status' = [user_status EXCEPT ![u] = "active"]
    /\ UNCHANGED <<now, issued, ledger, next_jti, logged_out, rotated,
                   from_login, orphaned>>

\* the answer of the request last handled goes back to the client
SessionDeliver ==
    /\ sresp # SessionIdle
    /\ sresp' = SessionIdle
    /\ UNCHANGED <<now, user_active, user_status, issued, ledger, next_jti,
                   logged_out, rotated, from_login, orphaned>>

\* the clock moves on between two requests
SessionTick ==
    /\ sresp = SessionIdle
    /\ now < MaxTime
    /\ now' = now + 1
    /\ UNCHANGED svars

----------------------------------------------------------------------------
(* The booking scheduler, one handler at a time *)

NoToken == Token(NoJti, NoUser, 0, "none")

\* a handler that holds no request
NoLocal ==
    [service_id |-> "s1", start_time |-> Unset, end_time |-> Unset,
     token |-> NoToken, log |-> "none", access |-> NoJti, kind |-> "none"]

InitBookings ==
    /\ bookings = {}
    /\ service_active = [s \in ServiceIds |-> TRUE]
    /\ next_id = 0
    /\ resp = Idle

InitSessions ==
    /\ user_active = [u \in UserIds |-> TRUE]
    /\ user_status = [u \in UserIds |-> "active"]
    /\ issued = {}
    /\ ledger = {}
    /\ next_jti = 0
    /\ sresp = SessionIdle
    /\ logged_out = {}
    /\ rotated = {}
    /\ from_login = {}
    /\ orphaned = {}

Listing(op, actor, user_id, service_id, status, from_date, to_date, kind, items) ==
    [op |-> op, actor |-> actor, user_id |-> user_id, service_id |-> service_id,
     status |-> status, from_date |-> from_date, to_date |-> to_date,
     kind |-> kind, items |-> items]

NoService == "none"

NoListing ==
    Listing("none", NoUser, NoUser, NoService, UnsetStatus, Unset, Unset,
            "none", <<>>)

InitHandlers ==
    /\ pc = [p \in Procs |-> "idle"]
    /\ local = [p \in Procs |-> NoLocal]
    /\ reviews = {}
    /\ listing = NoListing

\* the same as InitBrief, with bookings that keep the time of their creation
InitStamped ==
    /\ now = 0
    /\ verbose = FALSE
    /\ stamped = TRUE
    /\ InitBookings
    /\ InitSessions
    /\ InitHandlers

Init ==
    /\ now = 0
    /\ verbose = TRUE
    /\ stamped = FALSE
    /\ InitBookings
    /\ InitSessions
    /\ InitHandlers

\* the same, with resp kept to the shape of the request
InitBrief ==
    /\ now = 0
    /\ verbose = FALSE
    /\ stamped = FALSE
    /\ InitBookings
    /\ InitSessions
    /\ InitHandlers

DoCreate ==
    /\ \E actor \in {"u1"}, service_id \in ServiceIds, s \in Times, e \in Times,
          commit_ok \in BOOLEAN :
           create_booking(actor, service_id, s, e, commit_ok)
    /\ UNCHANGED <<svars, rvars>>

\* the patches of this specification: a status alone, a whole new window, or both
Windows == {<<Unset, Unset>>} \cup ((1..MaxTime) \X (1..MaxTime))

DoUpdate ==
    /\ \E actor \in UserIds, id \in 1..MaxBookings, w \in Windows,
          st \in BookingStatus \cup {UnsetStatus}, commit_ok \in BOOLEAN :
           update_booking(actor, id, Patch(w[1], w[2], st), commit_ok)
    /\ UNCHANGED <<svars, rvars>>

DoUpdateStatus ==
    /\ \E actor \in UserIds, id \in 1..MaxBookings, st \in BookingStatus,
          commit_ok \in BOOLEAN :
           update_booking_status(actor, id, st, commit_ok)
    /\ UNCHANGED <<svars, rvars>>

DoDelete ==
    /\ \E actor \in UserIds, id \in 1..MaxBookings, commit_ok \in BOOLEAN :
           delete_booking(actor, id, commit_ok)
    /\ UNCHANGED <<svars, rvars>>

DoDeliver == Deliver /\ UNCHANGED <<svars, rvars>>

DoTick == Tick /\ UNCHANGED <<svars, rvars>>

Next ==
    \/ DoCreate
    \/ DoUpdate
    \/ DoUpdateStatus
    \/ DoDelete
    \/ DoDeliver
    \/ DoTick

Spec == Init /\ [][Next]_vars

----------------------------------------------------------------------------
(* The session engine, one handler at a time *)

DoLogin ==
    /\ \E u \in UserIds, password_ok \in BOOLEAN, commit_ok \in BOOLEAN :
           login_user(u, password_ok, commit_ok)
    /\ UNCHANGED <<bvars, rvars>>

DoLogout ==
    /\ \E t \in issued, r \in issued \cup {NoToken}, commit_ok \in BOOLEAN,
          insert_ok1 \in BOOLEAN, insert_ok2 \in BOOLEAN :
           logout_user(t, r, commit_ok, insert_ok1, insert_ok2)
    /\ UNCHANGED <<bvars, rvars>>

\* the tokens a client presents: those signed so far, and the same claims
\* signed without a jti
Presented == issued \cup {[t EXCEPT !.jti = NoJti] : t \in issued}

DoRefresh ==
    /\ \E r \in Presented, insert_ok \in BOOLEAN :
           refresh_access_token(r, insert_ok)
    /\ UNCHANGED <<bvars, rvars>>

DoAuthenticate ==
    /\ \E t \in Presented : authenticate(t)
    /\ UNCHANGED <<bvars, rvars>>

DoPurge ==
    /\ \E commit_ok \in BOOLEAN : purge_expired(commit_ok)
    /\ UNCHANGED <<bvars, rvars>>

DoDeleteUser ==
    /\ \E u \in UserIds : delete_user(u)
    /\ UNCHANGED <<bvars, rvars>>

DoSessionDeliver == SessionDeliver /\ UNCHANGED <<bvars, rvars>>

DoSessionTick == SessionTick /\ UNCHANGED <<bvars, rvars>>

SessionNext ==
    \/ DoLogin
    \/ DoLogout
    \/ DoRefresh
    \/ DoAuthenticate
    \/ DoPurge
    \/ DoDeleteUser
    \/ DoSessionDeliver
    \/ DoSessionTick

SessionSpec == Init /\ [][SessionNext]_vars

----------------------------------------------------------------------------
(* Two create_booking handlers running at once, a statement at a time *)

\* DELETE /services/{service_id}: ServiceCRUD.delete_service, a soft delete
delete_service(actor, service_id, commit_ok) ==
    LET kind == IF role(actor) # "admin" THEN "Forbidden"
                ELSE IF ~commit_ok THEN "Unavailable"
                ELSE "ok"
    IN  /\ resp = Idle
        /\ resp' = Response("delete_service", actor, NoId, service_id,
                            Unset, Unset, UnsetStatus, kind)
        /\ service_active' = IF kind = "ok"
                             THEN [service_active EXCEPT ![service_id] = FALSE]
                             ELSE service_active
        /\ UNCHANGED <<now, bookings, next_id>>

\* POST /bookings reaches handler p: BookingCreate validates the body, then
\* create_booking looks the service up
create_query_service(p, service_id, start_time, end_time) ==
    LET kind == IF ~BookingCreateValid(start_time, end_time)
                THEN "InvalidInterval"
                ELSE IF ~service_active[service_id] THEN "NotFound"
                ELSE "none"
    IN  /\ pc[p] = "idle"
        /\ local' = [local EXCEPT ![p] =
                        [NoLocal EXCEPT !.service_id = service_id,
                                        !.start_time = start_time,
                                        !.end_time = end_time,
                                        !.kind = kind]]
        /\ pc' = [pc EXCEPT ![p] = IF kind = "none" THEN "query_conflict"
                                   ELSE "done"]
        /\ UNCHANGED <<now, bvars, svars, verbose, stamped, reviews, listing>>

\* create_booking: the query of _has_time_conflict
create_query_conflict(p) ==
    LET conflict == has_time_conflict(bookings, local[p].service_id,
                                      local[p].start_time, local[p].end_time,
                                      NoId)
    IN  /\ pc[p] = "query_conflict"
        /\ local' = [local EXCEPT ![p].kind = IF conflict THEN "Conflict"
                                              ELSE "none"]
        /\ pc' = [pc EXCEPT ![p] = IF conflict THEN "done" ELSE "commit"]
        /\ UNCHANGED <<now, bvars, svars, verbose, stamped, reviews, listing>>

\* create_booking: db.add and db.commit
create_commit(p, commit_ok) ==
    /\ pc[p] = "commit"
    /\ IF commit_ok
       THEN /\ bookings' = bookings \cup
                   {Booking(next_id + 1, "u1", local[p].service_id,
                            local[p].start_time, local[p].end_time, "pending")}
            /\ next_id' = next_id + 1
       ELSE UNCHANGED <<bookings, next_id>>
    /\ local' = [local EXCEPT ![p].kind = IF commit_ok THEN "ok"
                                          ELSE "Unavailable"]
    /\ pc' = [pc EXCEPT ![p] = "done"]
    /\ UNCHANGED <<now, service_active, resp, svars, verbose, stamped, reviews, listing>>

RaceDeleteService ==
    /\ \E service_id \in ServiceIds, commit_ok \in BOOLEAN :
           delete_service("adm", service_id, commit_ok)
    /\ UNCHANGED <<svars, rvars>>

RaceQueryService ==
    \E p \in Procs, service_id \in ServiceIds, s \in Times, e \in Times :
        create_query_service(p, service_id, s, e)

RaceQueryConflict == \E p \in Procs : create_query_conflict(p)

RaceCommit == \E p \in Procs, commit_ok \in BOOLEAN : create_commit(p, commit_ok)

CreateRaceNext ==
    \/ RaceDeleteService
    \/ DoDeliver
    \/ RaceQueryService
    \/ RaceQueryConflict
    \/ RaceCommit

CreateRaceSpec == Init /\ [][CreateRaceNext]_vars

----------------------------------------------------------------------------
(* Two refresh_access_token handlers running at once, a statement at a time *)

\* POST /auth/refresh reaches handler p: verify_refresh_token, then the
\* is_active check
rotate_verify(p, r) ==
    LET auth == verify_refresh_token(r, ledger, user_active)
        kind == IF auth # "ok" THEN auth
                ELSE IF ~user_active[r.sub] THEN "Forbidden"
                ELSE "none"
    IN  /\ pc[p] = "idle"
        /\ local' = [local EXCEPT ![p] =
                        [NoLocal EXCEPT !.token = r, !.kind = kind]]
        /\ pc' = [pc EXCEPT ![p] = IF kind = "none" THEN "blacklist"
                                   ELSE "done"]
        /\ UNCHANGED <<now, bvars, svars, verbose, stamped, reviews, listing>>

\* refresh_access_token: the call of blacklist_token on the old token
rotate_blacklist(p, insert_ok) ==
    /\ pc[p] = "blacklist"
    /\ ledger' = blacklist_token(ledger, local[p].token, local[p].token.exp,
                                 insert_ok)
    /\ local' = [local EXCEPT ![p].log =
                    blacklist_token_log(ledger, local[p].token, insert_ok)]
    /\ pc' = [pc EXCEPT ![p] = "issue"]
    /\ UNCHANGED <<now, bvars, user_active, user_status, issued, next_jti,
                   sresp, logged_out, rotated, from_login, orphaned, verbose, stamped, reviews, listing>>

\* refresh_access_token: create_access_token, create_refresh_token, return
rotate_issue(p) ==
    /\ pc[p] = "issue"
    /\ issued' = issued \cup NewPair(local[p].token.sub)
    /\ next_jti' = next_jti + 2
    /\ rotated' = rotated \cup {local[p].token.jti}
    /\ local' = [local EXCEPT ![p].kind = "ok", ![p].access = next_jti + 1]
    /\ pc' = [pc EXCEPT ![p] = "done"]
    /\ UNCHANGED <<now, bvars, user_active, user_status, ledger, sresp,
                   logged_out, from_login, orphaned, verbose, stamped, reviews, listing>>

RaceVerify == \E p \in Procs, r \in issued : rotate_verify(p, r)

RaceBlacklist ==
    \E p \in Procs, insert_ok \in BOOLEAN : rotate_blacklist(p, insert_ok)

RaceIssue == \E p \in Procs : rotate_issue(p)

RotateRaceNext ==
    \/ DoLogin
    \/ DoSessionDeliver
    \/ DoSessionTick
    \/ RaceVerify
    \/ RaceBlacklist
    \/ RaceIssue

RotateRaceSpec == Init /\ [][RotateRaceNext]_vars

----------------------------------------------------------------------------
(* The booking scheduler with a second user and every patch, for one       *)
(* booking in the store at a time                                           *)

\* the users that reach the booking routes: those above and a second one
\* with role user
Actors == UserIds \cup {"u2"}

\* the bodies of PATCH /bookings/{booking_id}: each field given or left out
Patches ==
    {Patch(s, e, st) : s \in {Unset} \cup (1..MaxTime),
                       e \in {Unset} \cup (1..MaxTime),
                       st \in BookingStatus \cup {UnsetStatus}}

OwnerCreate ==
    /\ bookings = {}
    /\ \E s \in Times, e \in Times, commit_ok \in BOOLEAN :
           create_booking("u1", "s1", s, e, commit_ok)
    /\ UNCHANGED <<svars, rvars>>

OwnerUpdate ==
    /\ \E actor \in Actors, id \in 1..MaxBookings, patch \in Patches :
           update_booking(actor, id, patch, TRUE)
    /\ UNCHANGED <<svars, rvars>>

OwnerUpdateStatus ==
    /\ \E actor \in Actors, id \in 1..MaxBookings, st \in BookingStatus,
          commit_ok \in BOOLEAN :
           update_booking_status(actor, id, st, commit_ok)
    /\ UNCHANGED <<svars, rvars>>

OwnerDelete ==
    /\ \E actor \in Actors, id \in 1..MaxBookings, commit_ok \in BOOLEAN :
           delete_booking(actor, id, commit_ok)
    /\ UNCHANGED <<svars, rvars>>

OwnerNext ==
    \/ OwnerCreate
    \/ OwnerUpdate
    \/ OwnerUpdateStatus
    \/ OwnerDelete
    \/ DoDeliver
    \/ DoTick

OwnerSpec == InitBrief /\ [][OwnerNext]_vars

----------------------------------------------------------------------------
(* The booking scheduler with services that are deleted or missing *)

\* the ids a request can name: the rows of table services and one more
RequestedServiceIds == ServiceIds \cup {"s0"}

ServiceCreate ==
    /\ \E service_id \in RequestedServiceIds, s \in Times, e \in Times,
          commit_ok \in BOOLEAN :
           create_booking("u1", service_id, s, e, commit_ok)
    /\ UNCHANGED <<svars, rvars>>

\* the owner reschedules, cancels, or both
ServiceUpdate ==
    /\ \E id \in 1..MaxBookings, w \in Windows,
          st \in {UnsetStatus, "cancelled"}, commit_ok \in BOOLEAN :
           update_booking("u1", id, Patch(w[1], w[2], st), commit_ok)
    /\ UNCHANGED <<svars, rvars>>

ServiceDeleteBooking ==
    /\ \E id \in 1..MaxBookings, commit_ok \in BOOLEAN :
           delete_booking("u1", id, commit_ok)
    /\ UNCHANGED <<svars, rvars>>

ServiceDelete ==
    /\ \E actor \in UserIds, service_id \in ServiceIds, commit_ok \in BOOLEAN :
           delete_service(actor, service_id, commit_ok)
    /\ UNCHANGED <<svars, rvars>>

ServiceNext ==
    \/ ServiceCreate
    \/ ServiceUpdate
    \/ ServiceDeleteBooking
    \/ ServiceDelete
    \/ DoDeliver
    \/ DoTick

ServiceSpec == Init /\ [][ServiceNext]_vars

----------------------------------------------------------------------------
(* Two bookings of one service, moved by patches of one bound or both *)

\* a patch of this specification: any bound or both, with or without a
\* cancellation
Moves ==
    {Patch(s, e, st) : s \in {Unset} \cup (1..MaxTime),
                       e \in {Unset} \cup (1..MaxTime),
                       st \in {UnsetStatus, "cancelled"}}

MoveCreate ==
    /\ \E s \in Times, e \in Times : create_booking("u1", "s1", s, e, TRUE)
    /\ UNCHANGED <<svars, rvars>>

MoveUpdate ==
    /\ \E actor \in UserIds, id \in 1..MaxBookings, patch \in Moves,
          commit_ok \in BOOLEAN :
           update_booking(actor, id, patch, commit_ok)
    /\ UNCHANGED <<svars, rvars>>

MoveNext ==
    \/ MoveCreate
    \/ MoveUpdate
    \/ DoDeliver

MoveSpec == Init /\ [][MoveNext]_vars

----------------------------------------------------------------------------
(* Deleted users who register again *)

DoRegister ==
    /\ \E u \in UserIds, commit_ok \in BOOLEAN : create_user(u, commit_ok)
    /\ UNCHANGED <<bvars, rvars>>

RegisterNext ==
    \/ DoLogin
    \/ DoRefresh
    \/ DoAuthenticate
    \/ DoDeleteUser
    \/ DoRegister
    \/ DoSessionDeliver
    \/ DoSessionTick

RegisterSpec == Init /\ [][RegisterNext]_vars

----------------------------------------------------------------------------
(* Several sessions of one user, and the gate of the booking endpoints *)

DoAuthenticateActive ==
    /\ \E t \in issued : authenticate_active(t)
    /\ UNCHANGED <<bvars, rvars>>

GateNext ==
    \/ DoLogin
    \/ DoLogout
    \/ DoAuthenticateActive
    \/ DoSessionDeliver
    \/ DoSessionTick

GateSpec == Init /\ [][GateNext]_vars

----------------------------------------------------------------------------
(* Listing bookings *)

\* order_by(Booking.start_time.desc())
IsDescending(seq) ==
    \A i \in 1..(Len(seq) - 1) : seq[i].start_time >= seq[i + 1].start_time

\* the orders in which the database may return the rows of S under that
\* order_by: rows of equal start_time come in any order
Ordered(S) ==
    {seq \in [1..Cardinality(S) -> S] :
        /\ \A i \in 1..Cardinality(S) : \A j \in 1..Cardinality(S) :
              seq[i] = seq[j] => i = j
        /\ IsDescending(seq)}

\* offset(skip).limit(limit)
Page(seq, skip, limit) ==
    SubSeq(seq, skip + 1,
           IF skip + limit < Len(seq) THEN skip + limit ELSE Len(seq))

\* a variant of get_bookings without the filter on the status
get_bookings_any_status(db, skip, limit, user_id, service_id, status, from_date, to_date) ==
    LET rows == {b \in db :
                    /\ user_id # NoUser => b.user_id = user_id
                    /\ service_id # NoService => b.service_id = service_id
                    /\ from_date # Unset => b.start_time >= from_date
                    /\ to_date # Unset => b.start_time <= to_date}
    IN  {Page(seq, skip, limit) : seq \in Ordered(rows)}

\* BookingCRUD.get_bookings: the lists it may return
get_bookings(db, skip, limit, user_id, service_id, status, from_date, to_date) ==
    LET rows == {b \in db :
                    /\ user_id # NoUser => b.user_id = user_id
                    /\ service_id # NoService => b.service_id = service_id
                    /\ status # UnsetStatus => b.status = status
                    /\ from_date # Unset => b.start_time >= from_date
                    /\ to_date # Unset => b.start_time <= to_date}
    IN  {Page(seq, skip, limit) : seq \in Ordered(rows)}

\* GET /bookings: the bookings of the caller
get_user_bookings(actor, skip, limit, status, service_id, from_date, to_date) ==
    /\ resp = Idle
    /\ listing = NoListing
    /\ \E items \in get_bookings(bookings, skip, limit, actor, service_id,
                                 status, from_date, to_date) :
           listing' = Listing("get_user_bookings", actor, actor, service_id,
                              status, from_date, to_date, "ok", items)
    /\ UNCHANGED <<now, bookings, service_active, next_id, resp>>

\* GET /admin/bookings, behind get_current_admin_user
get_all_bookings(actor, skip, limit, user_id, service_id, status, from_date, to_date) ==
    /\ resp = Idle
    /\ listing = NoListing
    /\ IF role(actor) # "admin"
       THEN listing' = Listing("get_all_bookings", actor, user_id, service_id,
                               status, from_date, to_date, "Forbidden", <<>>)
       ELSE \E items \in get_bookings(bookings, skip, limit, user_id,
                                      service_id, status, from_date, to_date) :
               listing' = Listing("get_all_bookings", actor, user_id,
                                  service_id, status, from_date, to_date,
                                  "ok", items)
    /\ UNCHANGED <<now, bookings, service_active, next_id, resp>>

\* the list goes back to the client
ListDeliver ==
    /\ listing # NoListing
    /\ listing' = NoListing
    /\ UNCHANGED <<now, bvars, svars, pc, local, verbose, stamped, reviews>>

\* the values of the query parameters of this specification
Skips == 0..1

Limits == 1..MaxBookings

StatusFilters == {UnsetStatus, "pending"}

DateFilters == {Unset, 2}

ListCreate ==
    /\ listing = NoListing
    /\ \E actor \in UserIds, service_id \in ServiceIds, s \in Times, e \in Times :
           create_booking(actor, service_id, s, e, TRUE)
    /\ UNCHANGED <<svars, rvars>>

ListCancel ==
    /\ listing = NoListing
    /\ \E id \in 1..MaxBookings :
           update_booking_status("adm", id, "cancelled", TRUE)
    /\ UNCHANGED <<svars, rvars>>

ListOwn ==
    /\ \E actor \in UserIds, skip \in Skips, limit \in Limits,
          status \in StatusFilters, service_id \in ServiceIds \cup {NoService},
          from_date \in DateFilters, to_date \in DateFilters :
           get_user_bookings(actor, skip, limit, status, service_id,
                             from_date, to_date)
    /\ UNCHANGED <<svars, pc, local, verbose, stamped, reviews>>

ListAll ==
    /\ \E actor \in UserIds, skip \in Skips, limit \in Limits,
          user_id \in UserIds \cup {NoUser},
          status \in StatusFilters, service_id \in ServiceIds \cup {NoService},
          from_date \in DateFilters, to_date \in DateFilters :
           get_all_bookings(actor, skip, limit, user_id, service_id, status,
                            from_date, to_date)
    /\ UNCHANGED <<svars, pc, local, verbose, stamped, reviews>>

ListNext ==
    \/ ListCreate
    \/ ListCancel
    \/ ListOwn
    \/ ListAll
    \/ ListDeliver
    \/ DoDeliver

ListSpec == Init /\ [][ListNext]_vars

----------------------------------------------------------------------------
(* Two bookings and what an update leaves of them *)

FrameCreate ==
    /\ \E s \in Times, e \in Times : create_booking("u1", "s1", s, e, TRUE)
    /\ UNCHANGED <<svars, rvars>>

FrameUpdate ==
    /\ \E actor \in UserIds, id \in 1..MaxBookings, patch \in Moves :
           update_booking(actor, id, patch, TRUE)
    /\ UNCHANGED <<svars, rvars>>

FrameUpdateStatus ==
    /\ \E actor \in UserIds, id \in 1..MaxBookings :
           update_booking_status(actor, id, "completed", TRUE)
    /\ UNCHANGED <<svars, rvars>>

FrameNext ==
    \/ FrameCreate
    \/ FrameUpdate
    \/ FrameUpdateStatus
    \/ DoDeliver
    \/ DoTick

FrameSpec == InitStamped /\ [][FrameNext]_vars

----------------------------------------------------------------------------
(* Reviews of bookings *)

Review(booking_id, rating) == [booking_id |-> booking_id, rating |-> rating]

\* schemas.review_schema.ReviewBase: rating from 1 to 5
ReviewCreateValid(rating) == rating \in 1..5

\* a variant of ReviewCRUD.create_review without the check of the status
create_review_kind_any_status(booking_id, user_id, commit_ok) ==
    IF ~\E b \in bookings : b.id = booking_id /\ b.user_id = user_id
    THEN "NotFound"
    ELSE IF \E r \in reviews : r.booking_id = booking_id THEN "Conflict"
    ELSE IF ~commit_ok THEN "Unavailable"
    ELSE "ok"

\* ReviewCRUD.create_review: the answer
create_review_kind(booking_id, user_id, commit_ok) ==
    IF ~\E b \in bookings : b.id = booking_id /\ b.user_id = user_id
    THEN "NotFound"
    ELSE IF \E b \in bookings : b.id = booking_id /\ b.status # "completed"
    THEN "NotCompleted"
    ELSE IF \E r \in reviews : r.booking_id = booking_id THEN "Conflict"
    ELSE IF ~commit_ok THEN "Unavailable"
    ELSE "ok"

\* ReviewCRUD.create_review, called with a validated ReviewCreate
review_crud_create_review(user_id, booking_id, rating, commit_ok) ==
    LET kind == create_review_kind(booking_id, user_id, commit_ok)
    IN  /\ resp = Idle
        /\ reviews' = IF kind = "ok"
                      THEN reviews \cup {Review(booking_id, rating)}
                      ELSE reviews
        /\ resp' = Response("create_review", user_id, booking_id, "s1",
                            Unset, Unset, UnsetStatus, kind)
        /\ UNCHANGED <<now, bookings, service_active, next_id>>

\* POST /reviews. The handler calls create_review on its parameter
\* `review`, the request body, which has no such attribute; the
\* AttributeError is caught by `except Exception` and answered 500, and
\* ReviewCRUD.create_review is not reached.
create_review(actor, booking_id, rating) ==
    /\ resp = Idle
    /\ resp' = Response("post_review", actor, booking_id, "s1", Unset, Unset,
                        UnsetStatus,
                        IF ReviewCreateValid(rating) THEN "Unavailable"
                        ELSE "Unprocessable")
    /\ UNCHANGED <<now, bookings, service_active, next_id, reviews>>

Ratings == {0, 1, 5}

ReviewCrud ==
    /\ \E user_id \in Actors, id \in 1..MaxBookings,
          rating \in {r \in Ratings : ReviewCreateValid(r)},
          commit_ok \in BOOLEAN :
           review_crud_create_review(user_id, id, rating, commit_ok)
    /\ UNCHANGED <<svars, pc, local, verbose, stamped, listing>>

ReviewRoute ==
    /\ \E actor \in Actors, id \in 1..MaxBookings, rating \in Ratings :
           create_review(actor, id, rating)
    /\ UNCHANGED <<svars, pc, local, verbose, stamped, listing>>

ReviewNext ==
    \/ OwnerCreate
    \/ OwnerUpdateStatus
    \/ ReviewCrud
    \/ ReviewRoute
    \/ DoDeliver
    \/ DoTick

ReviewSpec == InitBrief /\ [][ReviewNext]_vars

----------------------------------------------------------------------------
(* The revocation ledger, with blacklist_token called for any token *)

\* a call of TokenBlacklistService.blacklist_token; sresp keeps the jti and
\* the line the call writes to the log
revoke(token, expires_at, insert_ok) ==
    /\ sresp = SessionIdle
    /\ ledger' = blacklist_token(ledger, token, expires_at, insert_ok)
    /\ sresp' = SessionResponse("revoke", token.jti,
                                blacklist_token_log(ledger, token, insert_ok),
                                NoUser, NoJti, NoJti)
    /\ UNCHANGED <<now, user_active, user_status, issued, next_jti,
                   logged_out, rotated, from_login, orphaned>>

\* the tokens blacklist_token is called with: any jti, or none
Revocable == {Token(jti, "u1", exp, "access") : jti \in 0..MaxPairs, exp \in Times}

LedgerRevoke ==
    /\ \E token \in Revocable, expires_at \in Times, insert_ok \in BOOLEAN :
           revoke(token, expires_at, insert_ok)
    /\ UNCHANGED <<bvars, rvars>>

LedgerNext ==
    \/ LedgerRevoke
    \/ DoPurge
    \/ DoSessionDeliver
    \/ DoSessionTick

LedgerSpec == Init /\ [][LedgerNext]_vars

----------------------------------------------------------------------------
(* Claims about the booking scheduler *)

ActiveStatus == {"pending", "confirmed"}

\* half-open windows [s1, e1) and [s2, e2) share a point of time
Overlap(s1, e1, s2, e2) == s1 < e2 /\ s2 < e1

\* C1: any two distinct bookings of one service that are both pending or
\* confirmed have windows that do not overlap.
C1_NoActiveOverlap ==
    \A b1 \in bookings : \A b2 \in bookings :
        (/\ b1.id # b2.id
         /\ b1.service_id = b2.service_id
         /\ b1.status \in ActiveStatus
         /\ b2.status \in ActiveStatus)
        => ~Overlap(b1.start_time, b1.end_time, b2.start_time, b2.end_time)

\* the bookings a create request was checked against: all the others
Existing == {b \in bookings : b.id # resp.id}

OverlapsExisting ==
    \E b \in Existing :
        /\ b.service_id = resp.service_id
        /\ b.status \in ActiveStatus
        /\ Overlap(b.start_time, b.end_time, resp.start_time, resp.end_time)

CreateAnswered ==
    /\ resp.op = "create"
    /\ resp.start_time < resp.end_time
    /\ service_active[resp.service_id]
    /\ \A b \in Existing : b.start_time < b.end_time

\* C3 as stated: a create request for a window [s, e) with s < e on an
\* active service, against existing bookings with start < end, is answered
\* Conflict exactly when a pending or confirmed booking of that service
\* overlaps [s, e).
C3_ConflictIffOverlap ==
    CreateAnswered => (resp.kind = "Conflict" <=> OverlapsExisting)

\* C3 as amended: the same, for a window that starts strictly after the
\* clock (a window that does not is answered InvalidInterval before the
\* conflict check runs).
C3_FutureConflictIffOverlap ==
    (CreateAnswered /\ now < resp.start_time)
        => (resp.kind = "Conflict" <=> OverlapsExisting)

\* a back-to-back window is accepted next to a pending or confirmed booking
\* that ends where it starts
C3_Witness ==
    /\ CreateAnswered
    /\ resp.kind = "ok"
    /\ \E b \in Existing :
        /\ b.service_id = resp.service_id
        /\ b.status \in ActiveStatus
        /\ b.end_time = resp.start_time

\* C9: an update by the non-admin owner that asks for a status other than
\* cancelled (and other than the one the booking has) is answered
\* InvalidTransition and leaves the booking as it was, unless the store
\* itself failed.
C9_OwnerStatusRejected ==
    [][(/\ resp = Idle
        /\ resp'.op = "update"
        /\ resp'.kind # "Unavailable"
        /\ role(resp'.actor) # "admin"
        /\ resp'.start_time = Unset /\ resp'.end_time = Unset
        /\ \E b \in bookings :
              /\ b.id = resp'.id
              /\ b.user_id = resp'.actor
              /\ resp'.status \notin {UnsetStatus, "cancelled", b.status})
       => (resp'.kind = "InvalidTransition" /\ bookings' = bookings)]_vars

StatusMachine ==
    {<<"pending", "confirmed">>, <<"pending", "cancelled">>,
     <<"confirmed", "cancelled">>, <<"confirmed", "completed">>}

\* C10: every change of a booking's status is a step of the state machine
\* pending -> {confirmed, cancelled}, confirmed -> {cancelled, completed};
\* cancelled and completed are left by no update.
C10_StatusMachine ==
    [][\A b \in bookings : \A c \in bookings' :
          (b.id = c.id /\ b.status # c.status)
              => <<b.status, c.status>> \in StatusMachine]_vars

----------------------------------------------------------------------------
(* Claims about concurrent create_booking handlers *)

\* C2: of two create handlers that ran for the same service with overlapping
\* windows, in whatever order their statements were taken, at most one
\* answered with the booking.
C2_AtMostOneCreateSucceeds ==
    \A p \in Procs : \A q \in Procs :
        (/\ p # q
         /\ pc[p] = "done" /\ pc[q] = "done"
         /\ local[p].service_id = local[q].service_id
         /\ Overlap(local[p].start_time, local[p].end_time,
                    local[q].start_time, local[q].end_time))
        => ~(local[p].kind = "ok" /\ local[q].kind = "ok")

----------------------------------------------------------------------------
(* Claims about the session engine *)

\* the token is still within its lifetime
Unexpired(t) == now < t.exp

\* the ledger holds a row for the jti
InLedger(jti) == \E row \in ledger : row.jti = jti

\* C4: an access token a successful logout was made with does not
\* authenticate any later request, and while it is unexpired the answer is
\* Revoked.
C4_RevokedNeverAuthenticates ==
    (sresp.op = "verify" /\ sresp.jti \in logged_out)
        => /\ sresp.kind # "ok"
           /\ \A t \in issued :
                  (t.jti = sresp.jti /\ Unexpired(t)) => sresp.kind = "Revoked"

\* C5: the access token login returned to an active user u, while unexpired
\* and without a ledger row, authenticates a request, as u.
C5_LoginTokenResolves ==
    \A l \in from_login : \A t \in issued :
        (/\ sresp.op = "verify"
         /\ sresp.jti = l.jti
         /\ t.jti = l.jti
         /\ user_active[l.user]
         /\ Unexpired(t)
         /\ ~InLedger(t.jti))
        => (sresp.kind = "ok" /\ sresp.user = l.user)

\* two users have logged in, and the token of one of them has just
\* authenticated a request as that user
C5_Witness ==
    /\ Cardinality({l.user : l \in from_login}) = 2
    /\ \E l \in from_login :
        /\ sresp.op = "verify"
        /\ sresp.jti = l.jti
        /\ sresp.kind = "ok"
        /\ sresp.user = l.user

\* C8: whenever a rotation answers with a new pair, the ledger holds a row
\* for the refresh token it was made with.
C8_RotationAllOrNothing ==
    (sresp.op = "refresh" /\ sresp.kind = "ok") => InLedger(sresp.jti)

----------------------------------------------------------------------------
(* Claims about concurrent refresh_access_token handlers *)

\* C6: a rotation that starts after another one has returned a new pair for
\* the same refresh token, the token being unexpired, is answered Revoked
\* and goes no further.
C6_RotationSingleUse ==
    [][\A p \in Procs : \A q \in Procs :
          (/\ p # q
           /\ pc[q] = "done" /\ local[q].kind = "ok"
           /\ pc[p] = "idle" /\ pc'[p] # "idle"
           /\ local'[p].token = local[q].token
           /\ Unexpired(local[q].token))
          => (local'[p].kind = "Revoked" /\ pc'[p] = "done")]_vars

\* C7: two rotations made with the same refresh token, unexpired to the
\* end, and neither of which met a failure of the store, have not both
\* returned a new pair.
C7_NoDoubleRotation ==
    \A p \in Procs : \A q \in Procs :
        (/\ p # q
         /\ pc[p] = "done" /\ pc[q] = "done"
         /\ local[p].token = local[q].token
         /\ Unexpired(local[p].token)
         /\ local[p].log # "error" /\ local[q].log # "error")
        => ~(local[p].kind = "ok" /\ local[q].kind = "ok")

----------------------------------------------------------------------------
(* Claims about the booking scheduler, for every actor and every patch *)

\* the stored booking of that id, if there is one
Stored(id) == {b \in bookings : b.id = id}

\* the answer and the effect of a request that the rules allow: done, unless
\* the store failed
Done(r, after) ==
    /\ r.kind \in {"ok", "Unavailable"}
    /\ bookings' = IF r.kind = "ok" THEN after ELSE bookings

\* C11: an update by a user without the admin role that gives a start or an
\* end, or that sets the status to cancelled, on a booking that is cancelled
\* or completed does not succeed and leaves the bookings as they were.
C11_RescheduleCancelOnlyActive ==
    [][(/\ resp = Idle
        /\ resp'.op = "update"
        /\ role(resp'.actor) # "admin"
        /\ \/ resp'.start_time # Unset
           \/ resp'.end_time # Unset
           \/ resp'.status = "cancelled"
        /\ \E b \in Stored(resp'.id) : b.status \notin ActiveStatus)
       => (resp'.kind # "ok" /\ bookings' = bookings)]_vars

\* a reschedule or a cancel of a cancelled or completed booking has just
\* been answered InvalidTransition
C11_Witness ==
    /\ resp.op = "update"
    /\ resp.kind = "InvalidTransition"
    /\ \E b \in Stored(resp.id) : b.status \notin ActiveStatus

\* an update or a delete by a user without the admin role who does not own
\* the stored booking of the id
ByStranger(r) ==
    /\ r.op \in {"update", "delete"}
    /\ role(r.actor) # "admin"
    /\ \E b \in Stored(r.id) : b.user_id # r.actor

\* an update or a delete of an id no stored booking has
OfMissing(r) == r.op \in {"update", "delete"} /\ Stored(r.id) = {}

\* C12 as stated: an update or a delete by a non-admin who is not the owner
\* is answered Forbidden, whatever the patch and the state of the booking,
\* and one of a missing id NotFound; the bookings stay as they were.
C12_StrangerForbidden ==
    [][(resp = Idle /\ (ByStranger(resp') \/ OfMissing(resp')))
       => /\ bookings' = bookings
          /\ resp'.kind = IF OfMissing(resp') THEN "NotFound"
                          ELSE "Forbidden"]_vars

\* C12 as amended: the same, for every patch the schema of the request
\* accepts (one that gives both times with end <= start is answered
\* InvalidInterval before the handler looks the booking up).
C12_StrangerForbiddenIfValid ==
    [][(/\ resp = Idle
        /\ ByStranger(resp') \/ OfMissing(resp')
        /\ resp'.kind # "InvalidInterval")
       => /\ bookings' = bookings
          /\ resp'.kind = IF OfMissing(resp') THEN "NotFound"
                          ELSE "Forbidden"]_vars

\* the second user has just been refused a reschedule of a cancelled or
\* completed booking of the first
C12_Witness ==
    /\ resp.op = "update"
    /\ resp.actor = "u2"
    /\ resp.start_time # Unset /\ resp.end_time # Unset
    /\ resp.kind = "Forbidden"
    /\ \E b \in Stored(resp.id) :
           b.user_id = "u1" /\ b.status \notin ActiveStatus

\* C13: every stored booking starts before it ends.
C13_StartBeforeEnd == \A b \in bookings : b.start_time < b.end_time

\* C16: a delete by the owner, without the admin role, removes the booking
\* if it starts after the clock, and otherwise is answered TooLate and
\* leaves it stored; a delete by an admin removes the booking whatever its
\* start, status and owner (unless the store fails).
C16_DeleteBeforeStart ==
    [][(resp = Idle /\ resp'.op = "delete")
       => \A b \in Stored(resp'.id) :
            /\ (role(resp'.actor) # "admin" /\ b.user_id = resp'.actor)
                  => IF b.start_time <= now
                     THEN resp'.kind = "TooLate" /\ bookings' = bookings
                     ELSE Done(resp', bookings \ {b})
            /\ role(resp'.actor) = "admin" => Done(resp', bookings \ {b})]_vars

\* the owner has just been refused the delete of a booking that starts at
\* the clock
C16_Witness ==
    /\ resp.op = "delete"
    /\ resp.kind = "TooLate"
    /\ \E b \in Stored(resp.id) : b.user_id = resp.actor /\ b.start_time = now

----------------------------------------------------------------------------
(* Further claims about the booking scheduler, one handler at a time *)

\* C14: a create request whose start is not after the clock, or whose end is
\* not after its start, is answered InvalidInterval and stores nothing; a
\* create request that stores anything stores one booking, with the window
\* and the service of the request, a start after the clock and before the
\* end, the status pending and the acting user as owner.
C14_CreateOnlyFutureWindow ==
    [][(resp = Idle /\ resp'.op = "create")
       => /\ (resp'.start_time <= now \/ resp'.end_time <= resp'.start_time)
                => (resp'.kind = "InvalidInterval" /\ bookings' = bookings)
          /\ bookings' # bookings
                => /\ now < resp'.start_time
                   /\ resp'.start_time < resp'.end_time
                   /\ bookings \subseteq bookings'
                   /\ bookings' \ bookings =
                          {Booking(resp'.id, resp'.actor, resp'.service_id,
                                   resp'.start_time, resp'.end_time, "pending")}
                   /\ Stored(resp'.id) = {}]_vars

\* with a booking in the store, a create request for a window that starts
\* at the clock has just been answered InvalidInterval
C14_Witness ==
    /\ resp.op = "create"
    /\ resp.kind = "InvalidInterval"
    /\ resp.start_time = now
    /\ resp.start_time < resp.end_time
    /\ bookings # {}

----------------------------------------------------------------------------
(* Claims about bookings of deleted and missing services *)

\* the request names no row of table services, or one that is soft-deleted
NoSuchService(r) ==
    ~(r.service_id \in ServiceIds /\ service_active[r.service_id])

\* the request is made by the owner of the stored booking b of a service
\* that is soft-deleted
OnDeletedService(r, b) ==
    /\ b \in Stored(r.id)
    /\ b.user_id = r.actor
    /\ ~service_active[b.service_id]

\* bookings of a soft-deleted service are kept when the service is deleted,
\* and their owners delete, cancel and reschedule them as they do any other
HonoursDeletedService(r) ==
    /\ r.op = "delete_service" => bookings' = bookings
    /\ \A b \in bookings :
        /\ (r.op = "delete" /\ OnDeletedService(r, b))
              => IF b.start_time <= now
                 THEN r.kind = "TooLate" /\ bookings' = bookings
                 ELSE Done(r, bookings \ {b})
        /\ (/\ r.op = "update" /\ OnDeletedService(r, b)
            /\ b.status \in ActiveStatus
            /\ r.status = "cancelled"
            /\ r.start_time = Unset /\ r.end_time = Unset)
              => Done(r, (bookings \ {b}) \cup {[b EXCEPT !.status = "cancelled"]})
        /\ (/\ r.op = "update" /\ OnDeletedService(r, b)
            /\ b.status \in ActiveStatus
            /\ r.status = UnsetStatus
            /\ r.start_time # Unset /\ r.start_time < r.end_time
            /\ \A c \in bookings \ {b} :
                  (c.service_id = b.service_id /\ c.status \in ActiveStatus)
                  => ~Overlap(c.start_time, c.end_time,
                              r.start_time, r.end_time))
              => Done(r, (bookings \ {b}) \cup
                         {[b EXCEPT !.start_time = r.start_time,
                                    !.end_time = r.end_time]})

\* C15 as stated: a create request for a missing or soft-deleted service is
\* answered NotFound and stores nothing; the bookings of a soft-deleted
\* service stay stored and are rescheduled, cancelled and deleted under the
\* rules of any booking.
C15_InactiveServiceNotFound ==
    [][resp = Idle
       => /\ (resp'.op = "create" /\ NoSuchService(resp'))
                => (resp'.kind = "NotFound" /\ bookings' = bookings)
          /\ HonoursDeletedService(resp')]_vars

\* C15 as amended: the same, for a create request whose window starts after
\* the clock and before its end (any other is answered InvalidInterval
\* before the service is looked up, and stores nothing either).
C15_InactiveServiceNotFoundIfValid ==
    [][resp = Idle
       => /\ (resp'.op = "create" /\ NoSuchService(resp'))
                => /\ bookings' = bookings
                   /\ resp'.kind =
                        IF now < resp'.start_time
                              /\ resp'.start_time < resp'.end_time
                        THEN "NotFound" ELSE "InvalidInterval"
          /\ HonoursDeletedService(resp')]_vars

\* a booking of a soft-deleted service has just been rescheduled by its
\* owner
C15_Witness ==
    /\ resp.op = "update"
    /\ resp.kind = "ok"
    /\ resp.start_time # Unset
    /\ \E b \in Stored(resp.id) :
           /\ ~service_active[b.service_id]
           /\ b.start_time = resp.start_time
           /\ b.end_time = resp.end_time

----------------------------------------------------------------------------
(* Further claims about the session engine *)

\* the tokens signed with that jti
TokenOf(jti) == {t \in issued : t.jti = jti}

\* C17: a request does not authenticate with a refresh token, a rotation is
\* not made with an access token, and neither goes through with a token
\* that has no jti; a refused rotation returns no tokens.
C17_TypesNotInterchangeable ==
    /\ (sresp.op = "verify"
            /\ (sresp.jti = NoJti
                  \/ \E t \in TokenOf(sresp.jti) : t.type = "refresh"))
          => sresp.kind # "ok"
    /\ (sresp.op = "refresh"
            /\ (sresp.jti = NoJti
                  \/ \E t \in TokenOf(sresp.jti) : t.type = "access"))
          => (sresp.kind # "ok" /\ sresp.access = NoJti
                /\ sresp.refresh = NoJti)

\* a rotation has just been refused for an access token that is unexpired,
\* without a ledger row, and of an active user
C17_Witness ==
    /\ sresp.op = "refresh"
    /\ sresp.kind = "Invalid"
    /\ \E t \in TokenOf(sresp.jti) :
           /\ t.type = "access"
           /\ Unexpired(t)
           /\ ~InLedger(t.jti)
           /\ user_active[t.sub]

----------------------------------------------------------------------------
(* Claims about the revocation ledger *)

\* C18: revoking a jti the ledger already holds leaves the ledger as it
\* is (the one row of that jti, with the expiry it had) and is not an
\* error; the ledger never holds two rows of one jti.
C18_RevocationIdempotent ==
    [][(sresp = SessionIdle /\ sresp'.op = "revoke")
       => /\ InLedger(sresp'.jti)
                => (ledger' = ledger /\ sresp'.kind # "error")
          /\ \A r1 \in ledger' : \A r2 \in ledger' :
                r1.jti = r2.jti => r1 = r2]_vars

\* a jti has just been revoked a second time, its row being expired already
C18_Witness ==
    /\ sresp.op = "revoke"
    /\ sresp.kind = "info: already blacklisted"
    /\ \E row \in ledger : row.jti = sresp.jti /\ row.expires_at <= now

----------------------------------------------------------------------------
(* Claims about rotation for a deactivated user *)

\* the users all active, as verification would see them before a
\* deactivation
AllActive == [u \in UserIds |-> TRUE]

\* the refresh token of the request answered by r resolves to a user (it is
\* signed, unexpired, of type refresh and not revoked) who is not active
\* any more
ResolvesToInactive(r) ==
    \E t \in TokenOf(r.jti) :
        /\ verify_refresh_token(t, ledger, AllActive) = "ok"
        /\ ~user_active[t.sub]

\* C19: a rotation with a refresh token that resolves to a user who is no
\* longer active is answered Forbidden and signs no token.
C19_InactiveUserForbidden ==
    [][(sresp = SessionIdle /\ sresp'.op = "refresh" /\ ResolvesToInactive(sresp'))
       => /\ sresp'.kind = "Forbidden"
          /\ issued' = issued
          /\ sresp'.access = NoJti /\ sresp'.refresh = NoJti]_vars

----------------------------------------------------------------------------
(* Claims about reviews *)

\* the booking of that id is stored, belongs to the user and is completed
OwnCompleted(id, user_id) ==
    \E b \in bookings :
        b.id = id /\ b.user_id = user_id /\ b.status = "completed"

\* C20: a review is stored only by a request to create one for a booking
\* that is stored, belongs to the acting user and is completed at that
\* moment; a request for any other booking (pending, confirmed, cancelled,
\* of another user, or missing) is rejected and stores nothing.
C20_ReviewOnlyOwnCompleted ==
    [][/\ reviews' # reviews
          => /\ resp = Idle
             /\ resp'.op \in {"create_review", "post_review"}
             /\ OwnCompleted(resp'.id, resp'.actor)
             /\ reviews' = reviews \cup {r \in reviews' : r.booking_id = resp'.id}
       /\ (/\ resp = Idle
           /\ resp'.op \in {"create_review", "post_review"}
           /\ ~OwnCompleted(resp'.id, resp'.actor))
          => (resp'.kind # "ok" /\ reviews' = reviews)]_vars

\* a review has just been stored for the acting user's completed booking
C20_Witness ==
    /\ resp.op = "create_review"
    /\ resp.kind = "ok"
    /\ OwnCompleted(resp.id, resp.actor)
    /\ \E r \in reviews : r.booking_id = resp.id

\* the reviews stored for the booking of that id
ReviewsOf(id) == {r \in reviews : r.booking_id = id}

\* C21: no booking ever has two reviews, and a valid POST /reviews of the
\* owner for a completed booking is answered by storing the review when the
\* booking has none, and by Conflict, storing nothing, when it has one.
C21_ExactlyOneReview ==
    [][/\ \A id \in 1..MaxBookings : Cardinality(ReviewsOf(id)') <= 1
       /\ (/\ resp = Idle
           /\ resp'.op = "post_review"
           /\ resp'.kind # "Unprocessable"
           /\ OwnCompleted(resp'.id, resp'.actor))
          => IF ReviewsOf(resp'.id) = {}
             THEN /\ resp'.kind = "ok"
                  /\ reviews' # reviews
                  /\ reviews' \ reviews
                        = {r \in reviews' : r.booking_id = resp'.id}
             ELSE /\ resp'.kind = "Conflict"
                  /\ reviews' = reviews]_vars

----------------------------------------------------------------------------
(* Further claims about logout, purge and rotation *)

\* C22: a logout that answers success leaves a ledger row for the access
\* token and one for the refresh token of the request; a logout that
\* answers an error leaves the ledger and the status of the users as they
\* were.
C22_LogoutAllOrNothing ==
    [][(sresp = SessionIdle /\ sresp'.op = "logout")
       => IF sresp'.kind = "ok"
          THEN /\ \E row \in ledger' : row.jti = sresp'.jti
               /\ sresp'.refresh # NoJti
                     => \E row \in ledger' : row.jti = sresp'.refresh
          ELSE /\ ledger' = ledger
               /\ user_status' = user_status]_vars

----------------------------------------------------------------------------
(* Claims about moving a booking *)

\* the window an update request asks for: the bounds it gives, and the
\* stored ones of booking b for those it leaves out
EffectiveStart(r, b) == IF r.start_time # Unset THEN r.start_time ELSE b.start_time

EffectiveEnd(r, b) == IF r.end_time # Unset THEN r.end_time ELSE b.end_time

\* another pending or confirmed booking of the service of b overlaps [s, e)
OverlapsOther(b, s, e) ==
    \E o \in bookings :
        /\ o.id # b.id
        /\ o.service_id = b.service_id
        /\ o.status \in ActiveStatus
        /\ Overlap(o.start_time, o.end_time, s, e)

\* C23: an update that gives a start or an end and gets as far as the
\* conflict check is answered Conflict exactly when its effective window
\* (the bounds it gives, the stored ones otherwise, start before end)
\* overlaps another pending or confirmed booking of the same service; the
\* booking's own window never counts, a Conflict leaves all bookings as
\* they were, and a success stores the effective window.
C23_MoveChecksEffectiveWindow ==
    [][(/\ resp = Idle
        /\ resp'.op = "update"
        /\ resp'.start_time # Unset \/ resp'.end_time # Unset
        /\ resp'.kind \in {"ok", "Unavailable", "Conflict"})
       => \A b \in Stored(resp'.id) :
             EffectiveStart(resp', b) < EffectiveEnd(resp', b)
             => /\ resp'.kind = "Conflict"
                   <=> OverlapsOther(b, EffectiveStart(resp', b),
                                     EffectiveEnd(resp', b))
                /\ resp'.kind = "Conflict" => bookings' = bookings
                /\ resp'.kind = "ok"
                   => bookings' = (bookings \ {b})
                          \cup {[b EXCEPT
                                   !.start_time = EffectiveStart(resp', b),
                                   !.end_time = EffectiveEnd(resp', b),
                                   !.status = IF resp'.status # UnsetStatus
                                              THEN resp'.status ELSE @]}]_vars

\* the rows of a ledger that a verification at time n consults
LiveAt(n, db) == {row \in db : row.expires_at > n}

C25_RotationRevokesOnlyPresented ==
    [][(sresp = SessionIdle /\ sresp'.op = "refresh")
       => /\ ledger \subseteq ledger'
          /\ \A row \in ledger' \ ledger : row.jti = sresp'.jti
          /\ \A t \in issued :
                t.jti # sresp'.jti
                => /\ get_current_user(t, ledger', user_active)
                         = get_current_user(t, ledger, user_active)
                   /\ (/\ t.type = "access"
                       /\ Unexpired(t)
                       /\ ~InLedger(t.jti)
                       /\ user_active[t.sub])
                      => get_current_user(t, ledger', user_active) = "ok"]_vars

\* a rotation has just gone through and the access token signed together
\* with its refresh token is unexpired and has no row
C25_Witness ==
    /\ sresp.op = "refresh"
    /\ sresp.kind = "ok"
    /\ InLedger(sresp.jti)
    /\ \E t \in issued :
          /\ t.type = "access"
          /\ t.jti = sresp.jti - 1
          /\ Unexpired(t)
          /\ ~InLedger(t.jti)
          /\ get_current_user(t, ledger, user_active) = "ok"

----------------------------------------------------------------------------
(* Claims about listing bookings *)

\* booking b passes every filter the list request l gave
MatchesFilters(b, l) ==
    /\ l.user_id # NoUser => b.user_id = l.user_id
    /\ l.service_id # NoService => b.service_id = l.service_id
    /\ l.status # UnsetStatus => b.status = l.status
    /\ l.from_date # Unset => l.from_date <= b.start_time
    /\ l.to_date # Unset => b.start_time <= l.to_date

\* C26: a list request changes no booking, service, user or ledger row; the
\* bookings it returns are stored ones, each once, that pass every filter
\* given, and they come by start_time, latest first.
C26_ListIsPureRead ==
    [][(listing = NoListing /\ listing' # NoListing)
       => /\ UNCHANGED <<bookings, service_active, next_id, user_active,
                         user_status, issued, ledger, reviews>>
          /\ \A i \in 1..Len(listing'.items) :
                /\ listing'.items[i] \in bookings
                /\ MatchesFilters(listing'.items[i], listing')
                /\ \A j \in 1..Len(listing'.items) :
                      listing'.items[i] = listing'.items[j] => i = j
          /\ \A i \in 1..(Len(listing'.items) - 1) :
                listing'.items[i].start_time >= listing'.items[i + 1].start_time]_vars

\* a list request with a date filter has returned one booking, the later
\* of two, and left out the other, which starts before from_date
C26_Witness ==
    /\ listing.kind = "ok"
    /\ listing.from_date # Unset
    /\ listing.to_date # Unset
    /\ Len(listing.items) = 1
    /\ \E b \in bookings : b.start_time < listing.from_date
    /\ listing.items[1].start_time >= listing.from_date

----------------------------------------------------------------------------
(* Claims about deleted users *)

\* C27: a token that a user held when that user was deleted never again
\* authenticates a request, and no rotation is made with it, whatever
\* happened to the user since.
C27_DeletedUserTokensDead ==
    (sresp.op \in {"verify", "refresh"} /\ sresp.jti \in orphaned)
        => sresp.kind # "ok"

----------------------------------------------------------------------------
(* Claims about the sessions of one user *)

\* C28: an access token that is unexpired, has no ledger row and was not
\* used for a logout is accepted by the gate of the booking and review
\* endpoints, whatever logouts and logins its user has made with other
\* tokens.
C28_LogoutScopedToSession ==
    [][(/\ sresp = SessionIdle
        /\ sresp'.op = "verify_active"
        /\ sresp'.jti \notin logged_out
        /\ ~InLedger(sresp'.jti)
        /\ \E t \in TokenOf(sresp'.jti) :
              t.type = "access" /\ Unexpired(t) /\ user_active[t.sub])
       => sresp'.kind = "ok"]_vars

----------------------------------------------------------------------------
(* Claims about reviewed bookings *)

----------------------------------------------------------------------------
(* Claims about what an update leaves alone *)

\* C30: an update, by whoever and with whatever patch, whether through
\* PATCH /bookings/{id} or the admin's status route, leaves the booking it
\* names with its id, user_id, service_id and created_at, leaves every
\* other booking as it was, and neither adds nor removes a booking.
C30_UpdateFrame ==
    [][(resp = Idle /\ resp'.op \in {"update", "update_status"})
       => /\ \A b \in bookings :
                IF b.id = resp'.id
                THEN \E c \in bookings' :
                        /\ c.id = b.id
                        /\ c.user_id = b.user_id
                        /\ c.service_id = b.service_id
                        /\ c.created_at = b.created_at
                ELSE b \in bookings'
          /\ {c.id : c \in bookings'} = {b.id : b \in bookings}
          /\ Cardinality(bookings') = Cardinality(bookings)]_vars

\* a booking created earlier has just been moved, next to another booking
C30_Witness ==
    /\ resp.op = "update"
    /\ resp.kind = "ok"
    /\ resp.start_time # Unset
    /\ Cardinality(bookings) = MaxBookings
    /\ \E b \in Stored(resp.id) : b.created_at < now

====
